---------------------------- MODULE Spec2Model ----------------------------
(***************************************************************************)
(* Model of src/smart_extractor.py: the smart Excel field extractor.       *)
(*                                                                         *)
(* A grid (pandas DataFrame read with header=None) is a sequence of rows,  *)
(* a row a sequence of cells.  A cell content is either absent (NaN) or    *)
(* carries a text; a text is the sequence of the Unicode code points of    *)
(* str(cell), so that substring tests, the "character before" test,        *)
(* strip(), split() and replace() are computed character by character as   *)
(* Python does.  The cell contents that occur in the modelled grids form   *)
(* the Vocabulary; a grid holds, per cell, the index of its content in the *)
(* Vocabulary, and what the source computes from one cell alone is         *)
(* tabulated once over the Vocabulary.                                     *)
(* Row and column indexes are 0-based as in the source (iloc).             *)
(***************************************************************************)
EXTENDS Integers, Sequences, FiniteSets, TLC

VARIABLES
    df,             \* the grid handed to extract_and_normalize
    pc,             \* position inside extract_and_normalize and, within it,
                    \* extract_fund_data_smart
    path,           \* history: the steps of the current call, in order
    header_row_idx, \* table path: index of the header row, -1 for None
    results,        \* table path: value returned by extract_table_format
    table_rows,     \* history: grid row of every entry of results
    table_cols,     \* history: per entry of results, the column every field
                    \* of the entry was read from
    table_appended, \* history: grid rows appended to results before return/raise
    result,         \* key/value path: value returned by extract_keyvalue_format
    kv_src,         \* history: per field found by the key/value path, its
                    \* label cell, alias, layout and value
    ret,            \* value returned by extract_fund_data_smart
    normalized,     \* value returned by extract_and_normalize
    calls,          \* number of calls started so far
    first,          \* history: grid and return value of the first call, once
                    \* it has returned
    fn,             \* a helper called on its own: its name
    arg,            \* the argument of the helper
    out,            \* history: what the helper returned, applied to arg and
                    \* then to what it returned
    pads            \* whether the C library's strftime pads a year to four
                    \* digits

\* the state of a helper called on its own
helper == <<fn, arg, out, pads>>

vars == <<df, pc, path, header_row_idx, results, table_rows, table_cols,
          table_appended, result, kv_src, ret, normalized, calls, first,
          helper>>

---------------------------------------------------------------------------
(* Python values *)

\* None; the source only ever tests these values for truthiness, so None,
\* the empty list and the empty dict are all the empty function.
None == <<>>

\* float('nan'), the cell pandas.read_excel gives for an absent cell
NaN == [isna |-> TRUE, text |-> <<>>]

\* a cell holding a string or a number, by the text of str(cell)
S(t) == [isna |-> FALSE, text |-> t]

\* str(cell)
Str(c) == IF c.isna THEN <<110, 97, 110>> ELSE c.text

\* pd.isna(cell)
pd_isna(c) == c.isna

---------------------------------------------------------------------------
(* Python str operations on texts *)

NEWLINE == 10
SPACE == 32
UNDERSCORE == 95
FULLWIDTH_COLON == 65306
CJK_FIRST == 19968
CJK_LAST == 40959

\* str.isspace() of one character (the white space str.strip() removes)
IsSpace(c) ==
    \/ c \in 9..13
    \/ c \in 28..32
    \/ c \in {133, 160, 5760, 8232, 8233, 8239, 8287, 12288}
    \/ c \in 8192..8202

\* str.isalpha() of one character, on the modelled alphabet: ASCII letters
\* and CJK unified ideographs are letters; digits, punctuation, the
\* full-width colon and white space are not.
IsAlpha(c) ==
    \/ c \in 65..90
    \/ c \in 97..122
    \/ c \in CJK_FIRST..CJK_LAST

\* s.replace(chr(c), '')
Remove(s, c) == SelectSeq(s, LAMBDA x : x # c)

\* s.replace(chr(a), chr(b))
Replace(s, a, b) == [i \in 1..Len(s) |-> IF s[i] = a THEN b ELSE s[i]]

\* s.strip()
StripTo(s, keep) ==
    IF keep = {} THEN <<>>
    ELSE SubSeq(s, CHOOSE i \in keep : \A k \in keep : i <= k,
                   CHOOSE i \in keep : \A k \in keep : i >= k)

Strip(s) == StripTo(s, {i \in 1..Len(s) : ~IsSpace(s[i])})

\* s.find(p): the 0-based index of the first occurrence of p in s, or -1
Occurrences(s, p) ==
    {i \in 0..(Len(s) - Len(p)) : SubSeq(s, i + 1, i + Len(p)) = p}

FirstOr(at, none) ==
    IF at = {} THEN none ELSE CHOOSE i \in at : \A k \in at : i <= k

Find(s, p) == FirstOr(Occurrences(s, p), -1)

\* p in s
In(p, s) == Len(p) <= Len(s) /\ Find(s, p) >= 0

\* s.split(chr(c), 1)[1], for a text s that contains c
AfterFirst(s, c) == SubSeq(s, Find(s, <<c>>) + 2, Len(s))

\* s.split(chr(c))[0]
BeforeFirst(s, c) ==
    IF Find(s, <<c>>) < 0 THEN s ELSE SubSeq(s, 1, Find(s, <<c>>))

---------------------------------------------------------------------------
(* The field catalog: extract_fund_data_smart, lines 33-39 *)

\* the keys of `keywords` in insertion order (the order dict.items() yields):
\* name = 产品名称, code = 产品代码, unitValue = 单位净值,
\* accumulatedUnitValue = 累计单位净值, valuationDate = 净值日期
FieldOrder ==
    <<"name", "code", "unitValue", "accumulatedUnitValue", "valuationDate">>

Fields == {FieldOrder[i] : i \in 1..Len(FieldOrder)}

keywords ==
    [ name |->
        << <<20135, 21697, 21517, 31216>>,    \* 产品名称
           <<22522, 37329, 21517, 31216>>,    \* 基金名称
           <<36164, 20135, 21517, 31216>>,    \* 资产名称
           <<21517, 31216>>,                  \* 名称
           <<70, 117, 110, 100, 78, 97, 109, 101>> >>,    \* FundName
      code |->
        << <<20135, 21697, 20195, 30721>>,    \* 产品代码
           <<22522, 37329, 20195, 30721>>,    \* 基金代码
           <<36164, 20135, 20195, 30721>>,    \* 资产代码
           <<20195, 30721>>,                  \* 代码
           <<21327, 20250, 22791, 26696, 32534, 30721>>,    \* 协会备案编码
           <<21327, 20250, 22791, 26696, 20195, 30721>>,    \* 协会备案代码
           <<70, 117, 110, 100, 70, 105, 108, 108, 105, 110, 103, 67, 111,
             100, 101>> >>,                   \* FundFillingCode
      unitValue |->
        << <<21333, 20301, 20928, 20540>>,    \* 单位净值
           <<22522, 37329, 20221, 39069, 20928, 20540>>,    \* 基金份额净值
           <<20135, 21697, 21333, 20301, 20928, 20540>>,    \* 产品单位净值
           <<24403, 26399, 20928, 20540>>,    \* 当期净值
           <<36164, 20135, 20928, 20540>>,    \* 资产净值
           <<20928, 20540>>,                  \* 净值
           <<23454, 38469, 20928, 20540>>,    \* 实际净值
           <<78, 65, 86, 47, 83, 104, 97, 114, 101>>,    \* NAV/Share
           <<78, 65, 86, 83, 104, 97, 114, 101>> >>,     \* NAVShare
      accumulatedUnitValue |->
        << <<32047, 35745, 21333, 20301, 20928, 20540>>,    \* 累计单位净值
           <<22522, 37329, 20221, 39069, 32047, 35745, 20928, 20540>>,
                                              \* 基金份额累计净值
           <<20135, 21697, 32047, 35745, 21333, 20301, 20928, 20540>>,
                                              \* 产品累计单位净值
           <<24403, 26399, 32047, 35745, 20928, 20540>>,    \* 当期累计净值
           <<36164, 20135, 20928, 20540, 32047, 35745, 20928, 20540>>,
                                              \* 资产净值累计净值
           <<32047, 35745, 20928, 20540>>,    \* 累计净值
           <<23454, 38469, 32047, 35745, 20928, 20540>>,    \* 实际累计净值
           <<65, 99, 99, 117, 109, 117, 108, 97, 116, 101, 100, 78, 65, 86,
             47, 83, 104, 97, 114, 101>>,     \* AccumulatedNAV/Share
           <<65, 99, 99, 117, 109, 117, 108, 97, 116, 101, 100, 78, 65, 86,
             83, 104, 97, 114, 101>> >>,      \* AccumulatedNAVShare
      valuationDate |->
        << <<20928, 20540, 26085, 26399>>,    \* 净值日期
           <<26085, 26399>>,                  \* 日期
           <<20272, 20540, 22522, 20934, 26085>>,    \* 估值基准日
           <<78, 65, 86, 65, 115, 79, 102, 68, 97, 116, 101>> >> ]
                                              \* NAVAsOfDate

\* is_header_keyword, lines 222-230
header_patterns ==
    << <<20135, 21697, 21517, 31216>>,    \* 产品名称
       <<22522, 37329, 21517, 31216>>,    \* 基金名称
       <<21517, 31216>>,                  \* 名称
       <<20135, 21697, 20195, 30721>>,    \* 产品代码
       <<22522, 37329, 20195, 30721>>,    \* 基金代码
       <<20195, 30721>>,                  \* 代码
       <<21333, 20301, 20928, 20540>>,    \* 单位净值
       <<22522, 37329, 20221, 39069, 20928, 20540>>,    \* 基金份额净值
       <<20135, 21697, 21333, 20301, 20928, 20540>>,    \* 产品单位净值
       <<20928, 20540>>,                  \* 净值
       <<32047, 35745, 21333, 20301, 20928, 20540>>,    \* 累计单位净值
       <<22522, 37329, 20221, 39069, 32047, 35745, 20928, 20540>>,
                                          \* 基金份额累计净值
       <<20135, 21697, 32047, 35745, 21333, 20301, 20928, 20540>>,
                                          \* 产品累计单位净值
       <<32047, 35745, 20928, 20540>>,    \* 累计净值
       <<20928, 20540, 26085, 26399>>,    \* 净值日期
       <<26085, 26399>>,                  \* 日期
       <<23458, 25143, 21517, 31216>>,    \* 客户名称
       <<20221, 39069>>,                  \* 份额
       <<21442, 19982, 35745, 25552, 20221, 39069>>,    \* 参与计提份额
       <<35745, 25552, 39057, 29575>>,    \* 计提频率
       <<19994, 32489, 25253, 37228>>,    \* 业绩报酬
       <<25552, 21462, 20928, 20540>>,    \* 提取净值
       <<34394, 25311, 20928, 20540>> >>  \* 虚拟净值


---------------------------------------------------------------------------
(* Helpers shared by both paths *)

HEADER_SCAN_ROWS == 5
MIN_HEADER_FIELDS == 2
MIN_RECORD_FIELDS == 3

Min(a, b) == IF a <= b THEN a ELSE b

\* the texts 'nan' and 'NaN'
nan == <<110, 97, 110>>
NaN_text == <<78, 97, 78>>

\* the element of a set of one element; {e(x) : x \in {v}} names the value
\* v in e
The(X) == CHOOSE x \in X : TRUE

\* the least pair of a non-empty set of pairs in the order two nested
\* loops visit them (outer loop first component, inner loop second)
FirstPair(P) ==
    CHOOSE p \in P : \A q \in P : p[1] < q[1] \/ (p[1] = q[1] /\ p[2] <= q[2])

\* the least element of a set of integers, or none when the set is empty
LeastOr(X, none) == IF X = {} THEN none ELSE CHOOSE x \in X : \A y \in X : x <= y

\* t.replace('\n', '').replace(' ', '')
Cleaned(t) == Remove(Remove(t, NEWLINE), SPACE)

\* clean_value, lines 243-251
CutAtUnderscore(v) ==
    IF In(<<UNDERSCORE>>, v) THEN BeforeFirst(v, UNDERSCORE) ELSE v

clean_value(value) == CutAtUnderscore(Strip(value))

\* the validator's required fields, line 260
required_fields == {"code", "unitValue"}

\* a validator that asks for the unit value only
is_valid_unit_only(r) ==
    r # None /\ "unitValue" \in DOMAIN r /\ r["unitValue"] # <<>>

\* is_valid_result, lines 254-265; a result is a function from the fields
\* it holds to texts
is_valid_result(r) ==
    /\ r # None
    /\ \A f \in required_fields : f \in DOMAIN r /\ r[f] # <<>>

---------------------------------------------------------------------------
(* The table path on one cell: extract_table_format, lines 56-131 *)

\* lines 67, 72-76: the fields with an alias inside the cell of a candidate
\* header row, taken as a string without line breaks and spaces
FieldsInCell(c) ==
    {f \in Fields :
        \E k \in 1..Len(keywords[f]) : In(keywords[f][k], Cleaned(Str(c)))}

\* line 91: the column label made from a cell of the header row
HeaderLabel(c) == Strip(Replace(Str(c), NEWLINE, SPACE))

\* a column lookup on the label as written, line breaks and spaces kept
HeaderHitsAsWritten(label, f) ==
    {k \in 1..Len(keywords[f]) : In(keywords[f][k], label)}

\* lines 113-116: the aliases of the field found in a column label
HeaderHits(label, f) ==
    {k \in 1..Len(keywords[f]) : In(keywords[f][k], Cleaned(label))}

\* line 105: the cell of a data row is blank
BlankCell(c) ==
    pd_isna(c) \/ Strip(Str(c)) \in {<<>>, nan, NaN_text}

\* line 118: the cell read from the column holds a value
HasValue(c) ==
    /\ ~pd_isna(c)
    /\ Strip(Str(c)) # <<>>
    /\ Str(c) # nan

---------------------------------------------------------------------------
(* The key/value path on one cell: extract_keyvalue_format, lines 134-214 *)

\* the aliases of one field, as a set
all_keywords_of(f) == {keywords[f][k] : k \in 1..Len(keywords[f])}

\* lines 140-142: every alias of every field
all_keywords == UNION {all_keywords_of(f) : f \in Fields}

\* is_header_keyword, lines 217-240
is_header_keyword(value) ==
    \/ \E n \in 1..Len(header_patterns) :
          In(header_patterns[n], value) \/ In(value, header_patterns[n])
    \/ \E kw \in all_keywords : In(kw, value) \/ In(value, kw)

\* line 148: the text of the cell
CellValue(c) == Strip(Str(c))

\* a scanner that accepts an alias after any character
BeforeAny(cv, idx) == TRUE

\* lines 161-165: the character before the occurrence at idx, if any, is
\* neither a letter nor a CJK ideograph
BeforeOk(cv, idx) ==
    idx = 0 \/ ~(IsAlpha(cv[idx]) \/ cv[idx] \in CJK_FIRST..CJK_LAST)

\* lines 151-166: the alias matches the cell text cv, by equality of the
\* cleaned forms or as a substring
is_match(pattern, cv) ==
    IF Cleaned(cv) = Cleaned(pattern) THEN TRUE
    ELSE IF In(pattern, cv) THEN BeforeOk(cv, Find(cv, pattern))
    ELSE FALSE

\* lines 171-182: another field has a longer alias inside the cleaned cell
Beats(other_pattern_cleaned, pattern_cleaned, cell_value_cleaned) ==
    /\ In(other_pattern_cleaned, cell_value_cleaned)
    /\ Len(other_pattern_cleaned) > Len(pattern_cleaned)

\* a scanner without the most-specific-match rule
no_better_field_match(field_name, pattern, cv) == FALSE

better_field_match(field_name, pattern, cv) ==
    \E other_field \in Fields \ {field_name} :
        \E other_pattern \in all_keywords_of(other_field) :
            Beats(Cleaned(other_pattern), Cleaned(pattern), Cleaned(cv))

\* lines 150-184, 203: the index of the alias through which the field
\* accepts the cell text as its label (the first alias that matches and is
\* not beaten by a longer alias of another field), or 0
LabelPattern(field_name, cv) ==
    LeastOr({k \in 1..Len(keywords[field_name]) :
                /\ is_match(keywords[field_name][k], cv)
                /\ ~better_field_match(field_name, keywords[field_name][k], cv)},
            0)

\* lines 187-191: the value after the first full-width colon of the label
\* cell, when there is one and it is usable
SameCellValue(cv) == Strip(AfterFirst(cv, FULLWIDTH_COLON))

SameValueOk(value) ==
    /\ value # <<>>
    /\ value # nan
    /\ ~is_header_keyword(value)

SameCellOk(cv) ==
    In(<<FULLWIDTH_COLON>>, cv) /\ SameValueOk(SameCellValue(cv))

\* line 199: the text of a cell to the right is usable as a value
RightCellOk(value) ==
    /\ value # <<>>
    /\ value # nan
    /\ value # NaN_text
    /\ ~is_header_keyword(value)

---------------------------------------------------------------------------
(* The values of the normalised records: extract_and_normalize, lines
   302-346.  Here None, the empty string and a float are told apart. *)

PyNone == [kind |-> "None", text |-> <<>>, mant |-> 0, exp |-> 0]

\* a str, by its text
PyStr(t) == [kind |-> "str", text |-> t, mant |-> 0, exp |-> 0]

\* a finite float, by the decimal number mant * 10^exp it was read from
\* (mant without trailing zeros, so that equal numbers are equal values)
PyFloat(m, e) == [kind |-> "float", text |-> <<>>, mant |-> m, exp |-> e]

\* float('inf') and float('-inf') by their sign, and float('nan')
PyInf(sign) == [kind |-> "inf", text |-> <<>>, mant |-> sign, exp |-> 0]
PyNan == [kind |-> "nan", text |-> <<>>, mant |-> 0, exp |-> 0]

\* bool(v) of None or a str
Truthy(v) == v.kind = "str" /\ v.text # <<>>

---------------------------------------------------------------------------
(* Dates: normalize_date, lines 268-291 *)

\* a decimal digit of the modelled alphabet (ASCII)
IsDigit(c) == c \in 48..57

\* int(s) of a text of digits
RECURSIVE IntOf(_)
IntOf(s) ==
    IF s = <<>> THEN 0
    ELSE IntOf(SubSeq(s, 1, Len(s) - 1)) * 10 + (s[Len(s)] - 48)

\* str(n) of a natural number
RECURSIVE Digits(_)
Digits(n) == IF n < 10 THEN <<48 + n>> ELSE Append(Digits(n \div 10), 48 + (n % 10))

\* '%02d' % n
Pad2(n) == IF n < 10 THEN <<48, 48 + n>> ELSE Digits(n)

\* '%04d' % n
Pad4(n) ==
    IF n < 10 THEN <<48, 48, 48>> \o Digits(n)
    ELSE IF n < 100 THEN <<48, 48>> \o Digits(n)
    ELSE IF n < 1000 THEN <<48>> \o Digits(n)
    ELSE Digits(n)

\* line 280: the formats tried, in order; a format is the sequence of its
\* directives and literal characters
formats ==
    << <<"%Y", "%m", "%d">>,
       <<"%Y", "-", "%m", "-", "%d">>,
       <<"%Y", "/", "%m", "/", "%d">>,
       <<"%Y", "-", "%m", "-", "%d", " ", "%H", ":", "%M", ":", "%S">> >>

\* the two-digit numbers a directive accepts, by their digits a and b
TwoDigits(item, a, b) ==
    CASE item = "%m" -> (a = 49 /\ b \in 48..50) \/ (a = 48 /\ b \in 49..57)
      [] item = "%d" -> \/ a = 51 /\ b \in 48..49
                        \/ a \in 49..50 /\ IsDigit(b)
                        \/ a = 48 /\ b \in 49..57
                        \/ a = SPACE /\ b \in 49..57
      [] item = "%H" -> (a = 50 /\ b \in 48..51) \/ (a \in 48..49 /\ IsDigit(b))
      [] item = "%M" -> a \in 48..53 /\ IsDigit(b)
      [] item = "%S" -> (a = 54 /\ b \in 48..49) \/ (a \in 48..53 /\ IsDigit(b))

\* the one-digit numbers a directive accepts
OneDigit(item, a) ==
    IF item \in {"%m", "%d"} THEN a \in 49..57 ELSE IsDigit(a)

\* the literal characters of the formats
Literal(item) ==
    CASE item = "-" -> 45
      [] item = "/" -> 47
      [] item = ":" -> 58

\* the text t is matched by one item of a format: by a directive as
\* strptime's regular expression for it does (%Y four digits, the others
\* one or two digits in their range), by a space of the format as
\* white space of any length, by another character as itself
Matches(item, t) ==
    CASE item = "%Y" -> Len(t) = 4 /\ \A i \in 1..4 : IsDigit(t[i])
      [] item \in {"%m", "%d", "%H", "%M", "%S"} ->
            \/ Len(t) = 2 /\ TwoDigits(item, t[1], t[2])
            \/ Len(t) = 1 /\ OneDigit(item, t[1])
      [] item = " " -> \A i \in 1..Len(t) : IsSpace(t[i])
      [] OTHER -> t = <<Literal(item)>>

\* the longest text an item can match
MaxWidth(item, room) ==
    CASE item = "%Y" -> Min(4, room)
      [] item \in {"%m", "%d", "%H", "%M", "%S"} -> Min(2, room)
      [] item = " " -> room
      [] OTHER -> Min(1, room)

no_match == [ok |-> FALSE, parts |-> <<>>, end |-> 0]

\* the regular expression made of the items k.. of the format, matched at
\* position pos of s: every item takes the longest text it can such that
\* the items after it still match (the alternatives of a directive are
\* tried two digits first, and white space is greedy)
RECURSIVE MatchFrom(_, _, _, _)
RECURSIVE TryWidth(_, _, _, _, _)

Extend(t, rest) ==
    IF rest.ok THEN [rest EXCEPT !.parts = <<t>> \o rest.parts] ELSE no_match

TryWidth(fmt, k, s, pos, n) ==
    IF n = 0 THEN no_match
    ELSE IF ~Matches(fmt[k], SubSeq(s, pos, pos + n - 1))
    THEN TryWidth(fmt, k, s, pos, n - 1)
    ELSE The({IF rest.ok THEN Extend(SubSeq(s, pos, pos + n - 1), rest)
              ELSE TryWidth(fmt, k, s, pos, n - 1) :
                rest \in {MatchFrom(fmt, k + 1, s, pos + n)}})

MatchFrom(fmt, k, s, pos) ==
    IF k > Len(fmt) THEN [ok |-> TRUE, parts |-> <<>>, end |-> pos]
    ELSE TryWidth(fmt, k, s, pos, MaxWidth(fmt[k], Len(s) - pos + 1))

\* the part of the match taken by the directive, as a number (int() skips
\* the space a day can start with); 0 when the format has no such directive
RECURSIVE PartOf(_, _, _)
PartOf(fmt, parts, item) ==
    IF fmt = <<>> \/ parts = <<>> THEN 0
    ELSE IF Head(fmt) = item
         THEN IntOf(SelectSeq(Head(parts), IsDigit))
         ELSE PartOf(Tail(fmt), Tail(parts), item)

\* calendar.isleap
IsLeap(y) == y % 4 = 0 /\ (y % 100 # 0 \/ y % 400 = 0)

DaysIn(y, m) ==
    IF m = 2 THEN (IF IsLeap(y) THEN 29 ELSE 28)
    ELSE IF m \in {4, 6, 9, 11} THEN 30 ELSE 31

\* datetime(year, month, day, hour, minute, second) does not raise
ValidDateTime(y, m, d, sec) ==
    /\ y >= 1
    /\ d <= DaysIn(y, m)
    /\ sec <= 59

\* datetime.strptime(s, fmt), line 283: the match of the format, which must
\* start at the first character and leave no character unconverted, and
\* the date it stands for; ok is FALSE where strptime raises ValueError
StrptimeOf(fmt, s, m) ==
    [ok |-> /\ m.ok
            /\ m.end = Len(s) + 1
            /\ ValidDateTime(PartOf(fmt, m.parts, "%Y"), PartOf(fmt, m.parts, "%m"),
                             PartOf(fmt, m.parts, "%d"), PartOf(fmt, m.parts, "%S")),
     year |-> PartOf(fmt, m.parts, "%Y"),
     month |-> PartOf(fmt, m.parts, "%m"),
     day |-> PartOf(fmt, m.parts, "%d")]

strptime(s, fmt) == The({StrptimeOf(fmt, s, m) : m \in {MatchFrom(fmt, 1, s, 1)}})

\* dt.strftime('%Y%m%d'), line 284.  The C library writes %Y: with four
\* digits at least on some platforms, without padding on others (glibc),
\* so a year before 1000 comes out either way.
strftime(dt, padded) ==
    (IF padded THEN Pad4(dt.year) ELSE Digits(dt.year))
        \o Pad2(dt.month) \o Pad2(dt.day)

\* lines 281-286: the first format strptime accepts, or 0
FirstFormat(s) ==
    LeastOr({n \in 1..Len(formats) : strptime(s, formats[n]).ok}, 0)

\* lines 277-288, for the stripped text: a format that fails is skipped
\* (bare except, line 285); when all fail the stripped text is returned
FormatOrSelf(s, n, padded) ==
    IF n = 0 THEN s ELSE strftime(strptime(s, formats[n]), padded)

\* normalize_date, lines 268-291; date_str is None or a str
normalize_date(date_str, padded) ==
    IF ~Truthy(date_str) THEN PyNone
    ELSE PyStr(The({The({FormatOrSelf(s, n, padded) : n \in {FirstFormat(s)}}) :
                        s \in {Strip(date_str.text)}}))

---------------------------------------------------------------------------
(* Numbers: convert_to_float, lines 294-299 *)

PLUS == 43
MINUS == 45
DOT == 46

\* c.lower() of an ASCII character
Lower(c) == IF c \in 65..90 THEN c + 32 ELSE c

LowerText(t) == [i \in 1..Len(t) |-> Lower(t[i])]

\* the text without its sign, and the sign
Unsigned(t) ==
    IF t # <<>> /\ Head(t) \in {PLUS, MINUS} THEN Tail(t) ELSE t

SignOf(t) == IF t # <<>> /\ Head(t) = MINUS THEN -1 ELSE 1

\* 'inf', 'infinity', 'nan'
inf_texts == {<<105, 110, 102>>, <<105, 110, 102, 105, 110, 105, 116, 121>>}

\* an underscore of a numeric literal stands between two digits
UnderscoresOk(b) ==
    \A i \in 1..Len(b) :
        b[i] = UNDERSCORE =>
            i > 1 /\ i < Len(b) /\ IsDigit(b[i - 1]) /\ IsDigit(b[i + 1])

AllDigits(t) == \A i \in 1..Len(t) : IsDigit(t[i])

\* the 1-based index of the first 'e' or 'E', or 0
ExpAt(u) == LeastOr({i \in 1..Len(u) : u[i] \in {69, 101}}, 0)

\* the literal before its exponent, and the exponent
MantText(u) == IF ExpAt(u) = 0 THEN u ELSE SubSeq(u, 1, ExpAt(u) - 1)
ExpText(u) == IF ExpAt(u) = 0 THEN <<>> ELSE SubSeq(u, ExpAt(u) + 1, Len(u))

\* the digits before and after the decimal point
IntPart(m) == BeforeFirst(m, DOT)
FracPart(m) == IF In(<<DOT>>, m) THEN AfterFirst(m, DOT) ELSE <<>>

\* digits, at most one point, a digit on one side of it at least
MantOk(m) ==
    /\ AllDigits(IntPart(m)) /\ AllDigits(FracPart(m))
    /\ Len(IntPart(m)) + Len(FracPart(m)) >= 1

\* an exponent, where there is one, is a signed non-empty run of digits
ExpOk(u) ==
    ExpAt(u) = 0 \/ (Unsigned(ExpText(u)) # <<>> /\ AllDigits(Unsigned(ExpText(u))))

\* the unsigned body b is a decimal literal
DecimalOk(b) ==
    /\ UnderscoresOk(b)
    /\ MantOk(MantText(Remove(b, UNDERSCORE)))
    /\ ExpOk(Remove(b, UNDERSCORE))

\* mant * 10^exp with the trailing zeros of mant moved into exp
RECURSIVE Canon(_, _)
Canon(m, e) ==
    IF m = 0 THEN PyFloat(0, 0)
    ELSE IF m % 10 = 0 THEN Canon(m \div 10, e + 1)
    ELSE PyFloat(m, e)

\* the number a decimal literal u (no underscores) with the sign stands for
DecimalValue(sign, u) ==
    Canon(sign * IntOf(IntPart(MantText(u)) \o FracPart(MantText(u))),
          SignOf(ExpText(u)) * IntOf(Unsigned(ExpText(u)))
              - Len(FracPart(MantText(u))))

\* float(s) accepts the text: white space around it is skipped, then a
\* sign, then inf, infinity or nan in any case, or a decimal literal
FloatOk(t) ==
    \/ LowerText(Unsigned(Strip(t))) \in inf_texts \cup {nan}
    \/ DecimalOk(Unsigned(Strip(t)))

\* float(s), for a text it accepts
FloatOf(t) ==
    IF LowerText(Unsigned(Strip(t))) \in inf_texts THEN PyInf(SignOf(Strip(t)))
    ELSE IF LowerText(Unsigned(Strip(t))) = nan THEN PyNan
    ELSE DecimalValue(SignOf(Strip(t)), Remove(Unsigned(Strip(t)), UNDERSCORE))

\* convert_to_float, lines 294-299: float(value), and the value itself
\* when float raises (TypeError for None, ValueError for a text)
convert_to_float(value) ==
    IF value.kind = "str" /\ FloatOk(value.text) THEN FloatOf(value.text)
    ELSE value

---------------------------------------------------------------------------
(* The grids the extractor is run on *)

\* 资产净值报告 | - | - | - | -     a caption row: one cell, one field's alias
Caption ==
    <<S(<<36164, 20135, 20928, 20540, 25253, 21578>>), NaN, NaN, NaN, NaN>>

\* 基金代码 | 基金名称 | 净值日期 | 单位净值 | 累计单位净值
\* (the header of src/test_dongkai_baihui.py, lines 66-69)
HdrStd ==
    <<S(<<22522, 37329, 20195, 30721>>), S(<<22522, 37329, 21517, 31216>>),
      S(<<20928, 20540, 26085, 26399>>), S(<<21333, 20301, 20928, 20540>>),
      S(<<32047, 35745, 21333, 20301, 20928, 20540>>)>>

\* 基金代码 | 代码 | 代码 | 单位净值 | 净值日期     a header with one label twice
HdrDup ==
    <<S(<<22522, 37329, 20195, 30721>>), S(<<20195, 30721>>),
      S(<<20195, 30721>>), S(<<21333, 20301, 20928, 20540>>),
      S(<<20928, 20540, 26085, 26399>>)>>

\* 基金代码 | 客户名称 | 净值日期 | 累计单位净值 | 单位净值     a header with
\* an ancillary column (客户名称, as in src/test_dongkai_baihui.py, line 17)
\* and the accumulated value left of the unit value
HdrAnc ==
    <<S(<<22522, 37329, 20195, 30721>>), S(<<23458, 25143, 21517, 31216>>),
      S(<<20928, 20540, 26085, 26399>>),
      S(<<32047, 35745, 21333, 20301, 20928, 20540>>),
      S(<<21333, 20301, 20928, 20540>>)>>

\* ABC123 | F1 | 20250121 | 1.5000 | 1.5000
D1 ==
    <<S(<<65, 66, 67, 49, 50, 51>>), S(<<70, 49>>),
      S(<<50, 48, 50, 53, 48, 49, 50, 49>>), S(<<49, 46, 53, 48, 48, 48>>),
      S(<<49, 46, 53, 48, 48, 48>>)>>

\* ABC124 | F2 | 20250122 | 2.0000 | 2.0000
D2 ==
    <<S(<<65, 66, 67, 49, 50, 52>>), S(<<70, 50>>),
      S(<<50, 48, 50, 53, 48, 49, 50, 50>>), S(<<50, 46, 48, 48, 48, 48>>),
      S(<<50, 46, 48, 48, 48, 48>>)>>

\* - | F2 | 20250122 | 2.0000 | -     a data row without a code
DNoCode ==
    <<NaN, S(<<70, 50>>), S(<<50, 48, 50, 53, 48, 49, 50, 50>>),
      S(<<50, 46, 48, 48, 48, 48>>), NaN>>

\* ABC125 | F3 | TBD _1 | N/A | 1.0000     a data row whose date is no date
\* and whose unit value is no number
DBad ==
    <<S(<<65, 66, 67, 49, 50, 53>>), S(<<70, 51>>),
      S(<<84, 66, 68, 32, 95, 49>>), S(<<78, 47, 65>>),
      S(<<49, 46, 48, 48, 48, 48>>)>>

\* - | '' | - | ' ' | nan     a row of blank cells
Blank == <<NaN, S(<<>>), NaN, S(<<SPACE>>), S(nan)>>

\* 产品代码 | T05851 | - | - | -     label, value to the right
\* (the layout of src/test_complete_flow.py, lines 59-88)
KvCode ==
    <<S(<<20135, 21697, 20195, 30721>>), S(<<84, 48, 53, 56, 53, 49>>),
      NaN, NaN, NaN>>

\* 产品代码：T05851 | T05852 | - | - | -     label and value in one cell,
\* another text to its right
KvColon ==
    <<S(<<20135, 21697, 20195, 30721, 65306, 84, 48, 53, 56, 53, 49>>),
      S(<<84, 48, 53, 56, 53, 50>>), NaN, NaN, NaN>>

\* 实际净值 | - | 1.1613 | - | -     label, value two cells to the right
KvNav ==
    <<S(<<23454, 38469, 20928, 20540>>), NaN,
      S(<<49, 46, 49, 54, 49, 51>>), NaN, NaN>>

\* 净值日期：20250121 | - | - | - | -     label and value in one cell
KvDate ==
    <<S(<<20928, 20540, 26085, 26399, 65306, 50, 48, 50, 53, 48, 49, 50, 49>>),
      NaN, NaN, NaN, NaN>>

\* 累计单位净值：1.23 | - | - | - | -
KvAcc ==
    <<S(<<32047, 35745, 21333, 20301, 20928, 20540, 65306, 49, 46, 50, 51>>),
      NaN, NaN, NaN, NaN>>

\* 客户名称 | C01 | 虚拟净值 | 1.2000 | 累计 单位净值：1.23     labels that no
\* field of the catalog names (src/test_complete_flow.py, lines 60 and 64),
\* and a label with a space inside
KvOther ==
    <<S(<<23458, 25143, 21517, 31216>>), S(<<67, 48, 49>>),
      S(<<34394, 25311, 20928, 20540>>), S(<<49, 46, 50, 48, 48, 48>>),
      S(<<32047, 35745, 32, 21333, 20301, 20928, 20540, 65306, 49, 46, 50,
          51>>)>>

\* 协会备案编码\n（Fund Filling Code） | Fund Name | 日期\n（NAV As Of Date） |
\* 单位净值\n（NAV/Share） | 累计单位\n净值     a header with line breaks and
\* spaces inside its labels (src/test_extractor_fix.py, line 59)
HdrBroken ==
    <<S(<<21327, 20250, 22791, 26696, 32534, 30721, 10, 65288, 70, 117, 110,
      100, 32, 70, 105, 108, 108, 105, 110, 103, 32, 67, 111, 100, 101,
      65289>>), S(<<70, 117, 110, 100, 32, 78, 97, 109, 101>>), S(<<26085,
      26399, 10, 65288, 78, 65, 86, 32, 65, 115, 32, 79, 102, 32, 68, 97, 116,
      101, 65289>>), S(<<21333, 20301, 20928, 20540, 10, 65288, 78, 65, 86,
      47, 83, 104, 97, 114, 101, 65289>>), S(<<32047, 35745, 21333, 20301, 10,
      20928, 20540>>)>>

\* ABC127 | _总层面 | 20250123 | - | 3.0000     a data row without a unit
\* value, and with a name that is a suffix only (line 247)
DNoUnit ==
    <<S(<<65, 66, 67, 49, 50, 55>>), S(<<95, 24635, 23618, 38754>>), S(<<50,
      48, 50, 53, 48, 49, 50, 51>>), NaN, S(<<51, 46, 48, 48, 48, 48>>)>>

\* 产品名称 | Fund Filling Code | SB6346 | - | -     two labels side by side,
\* the right one written with spaces
KvSide ==
    <<S(<<20135, 21697, 21517, 31216>>), S(<<70, 117, 110, 100, 32, 70, 105,
      108, 108, 105, 110, 103, 32, 67, 111, 100, 101>>), S(<<83, 66, 54, 51,
      52, 54>>), NaN, NaN>>

\* 基金代码/基金名称 | SXD843 | - | - | -     one label cell with an alias of
\* the code and an alias of the name, both of four characters
KvTie ==
    <<S(<<22522, 37329, 20195, 30721, 47, 22522, 37329, 21517, 31216>>),
      S(<<83, 88, 68, 56, 52, 51>>), NaN, NaN, NaN>>

HeaderRows == {HdrStd, HdrDup, HdrAnc, HdrBroken}
\* the rows under a header, and the rows of a key/value card
TableRows == {D1, D2, DNoCode, DBad, DNoUnit, Blank}
KvRows == {KvCode, KvColon, KvNav, KvDate, KvAcc, KvOther, KvSide, KvTie}
AllRows == {Caption} \cup HeaderRows \cup TableRows \cup KvRows

\* a set as a sequence without repetition
RECURSIVE SetToSeq(_)
SetToSeq(X) ==
    IF X = {} THEN <<>>
    ELSE LET x == CHOOSE x \in X : TRUE IN <<x>> \o SetToSeq(X \ {x})

\* the cell contents that occur in the grids
Vocabulary ==
    SetToSeq(UNION {{row[j] : j \in 1..Len(row)} :
                        row \in AllRows})

Cells == 1..Len(Vocabulary)

\* a row of contents as a row of a grid
Encode(row) ==
    [j \in 1..Len(row) |-> CHOOSE c \in Cells : Vocabulary[c] = row[j]]

MaxTitle == 5
MaxBody == 3

\* all sequences over R of length at most n
RECURSIVE SeqsUpTo(_, _)
SeqsUpTo(R, n) ==
    IF n = 0 THEN {<<>>}
    ELSE LET shorter == SeqsUpTo(R, n - 1)
         IN  shorter \cup {Append(s, r) : s \in shorter, r \in R}

\* k caption rows
RECURSIVE Titles(_)
Titles(k) == IF k = 0 THEN <<>> ELSE Append(Titles(k - 1), Encode(Caption))

\* no row occurs twice
Distinct(s) == \A i, j \in 1..Len(s) : s[i] = s[j] => i = j

\* the rows after the titles and the header: data rows or card rows, each
\* row once at most
Bodies(n) ==
    {s \in SeqsUpTo({Encode(r) : r \in TableRows}, n)
            \cup SeqsUpTo({Encode(r) : r \in KvRows}, n) : Distinct(s)}

\* a grid: title rows, then possibly a header row, then body rows
GridsOf(maxTitle, maxBody) ==
    {Titles(k) \o top \o body :
        k \in 0..maxTitle,
        top \in {<<>>} \cup {<<Encode(h)>> : h \in HeaderRows},
        body \in Bodies(maxBody)}

Grids == GridsOf(MaxTitle, MaxBody)

\* what the source computes from one cell, for every cell of the Vocabulary
fields_in_cell == [c \in Cells |-> FieldsInCell(Vocabulary[c])]
header_label == [c \in Cells |-> HeaderLabel(Vocabulary[c])]
header_hits ==
    [c \in Cells |-> [f \in Fields |-> HeaderHits(HeaderLabel(Vocabulary[c]), f)]]
blank_cell == [c \in Cells |-> BlankCell(Vocabulary[c])]
has_value == [c \in Cells |-> HasValue(Vocabulary[c])]
table_value == [c \in Cells |-> clean_value(Str(Vocabulary[c]))]
cell_value == [c \in Cells |-> CellValue(Vocabulary[c])]
label_pattern ==
    [c \in Cells |-> [f \in Fields |-> LabelPattern(f, CellValue(Vocabulary[c]))]]
same_cell_ok == [c \in Cells |-> SameCellOk(CellValue(Vocabulary[c]))]
same_cell_value == [c \in Cells |-> SameCellValue(CellValue(Vocabulary[c]))]
right_cell_ok == [c \in Cells |-> RightCellOk(CellValue(Vocabulary[c]))]

---------------------------------------------------------------------------
(* The table path on a grid: extract_table_format, lines 56-131 *)

\* len(df.columns)
NCols(g) == IF Len(g) = 0 THEN 0 ELSE Len(g[1])

\* lines 71-76: the number of fields with an alias inside some cell of the row
matched_field_count(g, row_idx) ==
    Cardinality(UNION {fields_in_cell[g[row_idx + 1][j]] : j \in 1..NCols(g)})

\* a header test content with a single field
IsHeaderRowOneField(g, row_idx) == matched_field_count(g, row_idx) >= 1

\* line 78
IsHeaderRow(g, row_idx) == matched_field_count(g, row_idx) >= MIN_HEADER_FIELDS

\* a header scan over every row of the grid
ScanEveryRow(g) == 0..(Len(g) - 1)

\* line 63: range(min(5, len(df)))
ScanWindow(g) == 0..(Min(HEADER_SCAN_ROWS, Len(g)) - 1)

\* lines 61-80: the first qualifying row of the window; -1 stands for None
header_scan(g) ==
    The({LeastOr(rows, -1) : rows \in {{r \in ScanWindow(g) : IsHeaderRow(g, r)}}})

\* line 105: every cell of the data row is blank
AllBlank(row) == \A j \in 1..Len(row) : blank_cell[row[j]]

\* line 91: the column labels of df_with_header
cleaned_headers(g, h) == [j \in 1..NCols(g) |-> header_label[g[h + 1][j]]]

\* data_row[col] selects by label: when the label of column j is also the
\* label of another column pandas returns a Series, and line 118
\* (`if pd.notna(value) and ...`) raises ValueError on its truth value
Ambiguous(hdrs, j) == \E j2 \in 1..Len(hdrs) : j2 # j /\ hdrs[j2] = hdrs[j]

\* lines 113-116: the pairs <<alias, column>> with the alias of field f
\* inside the label of the column
Hits(g, h, f) ==
    UNION {{<<k, j>> : k \in header_hits[g[h + 1][j]][f]} : j \in 1..NCols(g)}

\* lines 117-121: where the two loops end for data row r: at a column whose
\* label is ambiguous (line 118 raises) or whose cell holds a value
Stops(g, r, hdrs, hits) ==
    {p \in hits : Ambiguous(hdrs, p[2]) \/ has_value[g[r + 1][p[2]]]}

LookupAt(g, r, hdrs, p) ==
    IF Ambiguous(hdrs, p[2])
    THEN [kind |-> "raise", col |-> p[2] - 1, value |-> <<>>]
    ELSE [kind |-> "found", col |-> p[2] - 1,
          value |-> table_value[g[r + 1][p[2]]]]

LookupFrom(g, r, hdrs, stops) ==
    IF stops = {} THEN [kind |-> "absent", col |-> -1, value |-> <<>>]
    ELSE LookupAt(g, r, hdrs, FirstPair(stops))

\* lines 111-123 for one field and one data row (grid row r under header
\* row h): aliases in order, columns in order, the first column whose label
\* contains the alias and whose cell holds a value
FieldLookup(g, h, r, f) ==
    The({The({LookupFrom(g, r, hdrs, stops) :
                stops \in {Stops(g, r, hdrs, Hits(g, h, f))}}) :
            hdrs \in {cleaned_headers(g, h)}})

\* lines 108-123: the dict built from one data row, or the exception
RowOf(look) ==
    [raise |-> \E f \in Fields : look[f].kind = "raise",
     rec |-> [f \in {x \in Fields : look[x].kind = "found"} |-> look[f].value],
     cols |-> [f \in {x \in Fields : look[x].kind = "found"} |-> look[f].col]]

RowResult(g, h, r) ==
    The({RowOf(look) : look \in {[f \in Fields |-> FieldLookup(g, h, r, f)]}})

\* line 125
RowAccepted(rec) == Cardinality(DOMAIN rec) >= MIN_RECORD_FIELDS

\* line 126: results.append(result)
AppendResult(recs, rec) == Append(recs, rec)

\* lines 100-126: the loop over the data rows, from grid row r on; acc holds
\* results, the grid row and the columns of each entry, and whether line 118
\* raised
RECURSIVE TableLoop(_, _, _, _)

\* lines 108-126 for the row r, then the rows after it
AfterRow(g, h, r, acc, rr) ==
    IF rr.raise THEN [acc EXCEPT !.raised = TRUE]
    ELSE IF RowAccepted(rr.rec)
    THEN The({TableLoop(g, h, r + 1, a) :
                a \in {[acc EXCEPT !.recs = AppendResult(acc.recs, rr.rec),
                                    !.rows = Append(acc.rows, r),
                                    !.cols = Append(acc.cols, rr.cols)]}})
    ELSE TableLoop(g, h, r + 1, acc)

TableLoop(g, h, r, acc) ==
    IF r >= Len(g) THEN acc
    ELSE IF AllBlank(g[r + 1]) THEN TableLoop(g, h, r + 1, acc)
    ELSE The({AfterRow(g, h, r, acc, rr) : rr \in {RowResult(g, h, r)}})

\* a list that outlives the call (a module-level or default-argument list)
StaleResults == IF results = None THEN <<>> ELSE results

\* line 100: results = [], a list made anew by every call
EmptyResults == <<>>

\* a loop over the rows that starts at the top of the grid, titles and
\* header row included
TableFromTop(g, h) ==
    IF h = -1 \/ h + 1 >= Len(g)
    THEN [header |-> h, recs |-> <<>>, rows |-> <<>>, cols |-> <<>>,
          raised |-> FALSE]
    ELSE The({TableLoop(g, h, 0, a) :
                a \in {[header |-> h, recs |-> EmptyResults, rows |-> <<>>,
                        cols |-> <<>>, raised |-> FALSE]}})

\* lines 82-128, with the header row found (or -1): the header row, the
\* records appended, their grid rows and columns, and whether line 118 raised
TableFrom(g, h) ==
    IF h = -1 \/ h + 1 >= Len(g)
    THEN [header |-> h, recs |-> <<>>, rows |-> <<>>, cols |-> <<>>,
          raised |-> FALSE]
    ELSE The({TableLoop(g, h, h + 1, a) :
                a \in {[header |-> h, recs |-> EmptyResults, rows |-> <<>>,
                        cols |-> <<>>, raised |-> FALSE]}})

\* the body of the try block, lines 59-128
extract_table_format(g) == The({TableFrom(g, h) : h \in {header_scan(g)}})

---------------------------------------------------------------------------
(* The key/value path on a grid: extract_keyvalue_format, lines 134-214 *)

\* line 196: the offsets tried to the right of the label, in order
RightOffsets == <<1, 2>>

\* lines 197-199: the offsets at which the cell right of (i, j) is usable
RightOk(g, i, j) ==
    {n \in 1..Len(RightOffsets) :
        /\ j + RightOffsets[n] < NCols(g)
        /\ right_cell_ok[g[i + 1][j + RightOffsets[n] + 1]]}

RightTaken(g, i, j, n) ==
    IF n = 0 THEN [layout |-> "none", offset |-> 0, value |-> <<>>]
    ELSE [layout |-> "right", offset |-> RightOffsets[n],
          value |-> cell_value[g[i + 1][j + RightOffsets[n] + 1]]]

\* lines 196-201: the first usable cell to the right of the label (i, j)
RightCapture(g, i, j) ==
    The({RightTaken(g, i, j, LeastOr(ok, 0)) : ok \in {RightOk(g, i, j)}})

\* the layouts tried in the other order: the cells to the right first
CaptureRightFirst(g, i, j) ==
    IF RightOk(g, i, j) # {} THEN RightCapture(g, i, j)
    ELSE IF same_cell_ok[g[i + 1][j + 1]]
    THEN [layout |-> "same", offset |-> 0,
          value |-> same_cell_value[g[i + 1][j + 1]]]
    ELSE [layout |-> "none", offset |-> 0, value |-> <<>>]

\* a third layout after the two of the source: the cell below the label
CaptureWithBelow(g, i, j) ==
    IF same_cell_ok[g[i + 1][j + 1]]
    THEN [layout |-> "same", offset |-> 0,
          value |-> same_cell_value[g[i + 1][j + 1]]]
    ELSE IF RightOk(g, i, j) # {} THEN RightCapture(g, i, j)
    ELSE IF i + 1 < Len(g) /\ right_cell_ok[g[i + 2][j + 1]]
    THEN [layout |-> "below", offset |-> 1,
          value |-> cell_value[g[i + 2][j + 1]]]
    ELSE [layout |-> "none", offset |-> 0, value |-> <<>>]

\* lines 186-201: the value taken for a label cell (i, j); the layouts in
\* order are the same cell after the first full-width colon, then the cells
\* to the right.  The source has no layout that reads the cell below.
Capture(g, i, j) ==
    IF same_cell_ok[g[i + 1][j + 1]]
    THEN [layout |-> "same", offset |-> 0, value |-> same_cell_value[g[i + 1][j + 1]]]
    ELSE RightCapture(g, i, j)

\* a scanner that gives up a field at the first cell the field accepts as
\* label, whether it yields a value or not
FirstLabelCell(g, field_name) ==
    {c \in (0..(Len(g) - 1)) \X (0..(NCols(g) - 1)) :
        /\ label_pattern[g[c[1] + 1][c[2] + 1]][field_name] # 0
        /\ Capture(g, c[1], c[2]).layout # "none"
        /\ \A d \in (0..(Len(g) - 1)) \X (0..(NCols(g) - 1)) :
              label_pattern[g[d[1] + 1][d[2] + 1]][field_name] # 0 =>
                  c[1] < d[1] \/ (c[1] = d[1] /\ c[2] <= d[2])}

\* the cells the field accepts as label and that yield a value
LabelCells(g, field_name) ==
    {c \in (0..(Len(g) - 1)) \X (0..(NCols(g) - 1)) :
        /\ label_pattern[g[c[1] + 1][c[2] + 1]][field_name] # 0
        /\ Capture(g, c[1], c[2]).layout # "none"}

ScanTaken(field_name, c, alias, cap) ==
    [found |-> TRUE, i |-> c[1], j |-> c[2], alias |-> alias,
     layout |-> cap.layout, offset |-> cap.offset, raw |-> cap.value,
     value |-> clean_value(cap.value)]

ScanAt(g, field_name, c) ==
    The({ScanTaken(field_name, c,
                   label_pattern[g[c[1] + 1][c[2] + 1]][field_name], cap) :
            cap \in {Capture(g, c[1], c[2])}})

ScanFrom(g, field_name, cells) ==
    IF cells = {}
    THEN [found |-> FALSE, i |-> -1, j |-> -1, alias |-> 0,
          layout |-> "none", offset |-> 0, raw |-> <<>>, value |-> <<>>]
    ELSE The({ScanAt(g, field_name, c) : c \in {FirstPair(cells)}})

\* lines 146-209 for one field: the first cell in row-major order that the
\* field accepts as label and that yields a value
FieldScan(g, field_name) ==
    The({ScanFrom(g, field_name, cells) : cells \in {LabelCells(g, field_name)}})

\* lines 137-209: the dict `result` when the loops end, with where each of
\* its entries came from
KvOf(scan) ==
    [rec |-> [f \in {x \in Fields : scan[x].found} |-> scan[f].value],
     src |-> [f \in {x \in Fields : scan[x].found} |->
                [i |-> scan[f].i, j |-> scan[f].j, alias |-> scan[f].alias,
                 layout |-> scan[f].layout, offset |-> scan[f].offset,
                 raw |-> scan[f].raw, value |-> scan[f].value]]]

KvScan(g) == The({KvOf(scan) : scan \in {[f \in Fields |-> FieldScan(g, f)]}})

\* line 211
KvAccepted(rec) == Cardinality(DOMAIN rec) >= MIN_RECORD_FIELDS

---------------------------------------------------------------------------
(* extract_and_normalize, lines 324-346, on the list of extracted dicts *)

\* the texts a dict of either path can hold: clean_value of a cell, of the
\* text after a colon, or of a cell's text
Values ==
    {table_value[c] : c \in Cells}
        \cup {clean_value(same_cell_value[c]) : c \in Cells}
        \cup {clean_value(cell_value[c]) : c \in Cells}

\* what the source computes from one value, for every such text
date_of == [v \in Values |-> [p \in BOOLEAN |-> normalize_date(PyStr(v), p)]]
float_of == [v \in Values |-> convert_to_float(PyStr(v))]

\* data.get(key), lines 331-341: the dict holds the fields that were found,
\* under the keys of `keywords`
Get(data, key) == IF key \in DOMAIN data THEN PyStr(data[key]) ELSE PyNone

\* normalize_date(data.get(key))
DateAt(data, key, p) ==
    IF key \in DOMAIN data THEN date_of[data[key]][p]
    ELSE normalize_date(PyNone, p)

\* convert_to_float(data.get(key))
FloatAt(data, key) ==
    IF key \in DOMAIN data THEN float_of[data[key]] ELSE convert_to_float(PyNone)

\* convert_to_float(data.get(key)) if data.get(key) else None
FloatOrNoneAt(data, key) ==
    IF Truthy(Get(data, key)) THEN FloatAt(data, key) ELSE PyNone

\* lines 330-342: the normalised dict; its keys are 产品名称, 产品代码,
\* 客户名称, 参与计提份额, 净值日期, 单位净值, 累计单位净值, 计提频率,
\* 虚拟计提业绩报酬金额, 提取净值, 计提后虚拟净值
NormalizedDict(data, p) ==
    [name |-> Get(data, "name"),
     code |-> Get(data, "code"),
     clientName |-> Get(data, "clientName"),
     participatingShares |-> FloatOrNoneAt(data, "participatingShares"),
     valuationDate |-> DateAt(data, "valuationDate", p),
     unitValue |-> FloatAt(data, "unitValue"),
     accumulatedUnitValue |-> FloatOrNoneAt(data, "accumulatedUnitValue"),
     accrualFrequency |-> Get(data, "accrualFrequency"),
     performanceFeeAmount |-> FloatOrNoneAt(data, "performanceFeeAmount"),
     withdrawalNAV |-> FloatOrNoneAt(data, "withdrawalNAV"),
     postAccrualVirtualNAV |-> FloatOrNoneAt(data, "postAccrualVirtualNAV")]

\* lines 326-346
normalized_list(data_list, p) ==
    IF data_list = None THEN None
    ELSE [n \in 1..Len(data_list) |-> NormalizedDict(data_list[n], p)]

---------------------------------------------------------------------------
(* extract_fund_data_smart, lines 41-53, as a state machine *)

\* no helper is called on its own
NoHelper ==
    /\ fn = "none"
    /\ arg = PyNone
    /\ out = <<>>
    /\ pads = FALSE

\* the state when a process calls extract_and_normalize(g) for the first time
\* and the call has reached extract_fund_data_smart(g), line 324
Start(g) ==
    /\ df = g
    /\ pc = "table"
    /\ path = <<>>
    /\ header_row_idx = -1
    /\ results = None
    /\ table_rows = <<>>
    /\ table_cols = <<>>
    /\ table_appended = <<>>
    /\ result = None
    /\ kv_src = None
    /\ ret = None
    /\ normalized = None
    /\ calls = 1
    /\ first = <<>>
    /\ NoHelper

Init == \E g \in Grids : Start(g)

\* line 42: extract_table_format runs to its return statement (line 83, 88,
\* 97 or 128)
TableReturns ==
    /\ pc = "table"
    /\ \E t \in {extract_table_format(df)} :
          /\ ~t.raised
          /\ header_row_idx' = t.header
          /\ results' = (IF t.recs = <<>> THEN None ELSE t.recs)
          /\ table_rows' = t.rows
          /\ table_cols' = t.cols
          /\ table_appended' = t.rows
    /\ pc' = "check_table"
    /\ path' = Append(path, "TableReturns")
    /\ UNCHANGED <<df, result, kv_src, ret, normalized, calls, first, helper>>

\* line 42: line 118 raises inside extract_table_format
TableRaises ==
    /\ pc = "table"
    /\ \E t \in {extract_table_format(df)} :
          /\ t.raised
          /\ header_row_idx' = t.header
          /\ table_appended' = t.rows
    /\ pc' = "table_raised"
    /\ path' = Append(path, "TableRaises")
    /\ UNCHANGED <<df, results, table_rows, table_cols, result, kv_src, ret,
                   normalized, calls, first, helper>>

\* the exception of line 118 leaving extract_table_format uncaught
TableErrorEscapes ==
    /\ pc = "table_raised"
    /\ pc' = "raised"
    /\ path' = Append(path, "TableErrorEscapes")
    /\ UNCHANGED <<df, header_row_idx, results, table_rows, table_cols,
                   table_appended, result, kv_src, ret, normalized, calls,
                   first, helper>>

\* lines 130-131: except Exception: return None
TableExcept ==
    /\ pc = "table_raised"
    /\ results' = None
    /\ table_rows' = <<>>
    /\ table_cols' = <<>>
    /\ pc' = "check_table"
    /\ path' = Append(path, "TableExcept")
    /\ UNCHANGED <<df, header_row_idx, table_appended, result, kv_src, ret,
                   normalized, calls, first, helper>>

\* the table path's records returned without validation
all_results(rs) == rs

\* line 44
valid_results(rs) == SelectSeq(rs, is_valid_result)

\* lines 43-46: the table path's records are returned
TableWins(rs) == rs # None /\ valid_results(rs) # <<>>

\* the return statements, lines 46, 51 and 53; the first call to return is
\* remembered
Return(value) ==
    /\ ret' = value
    /\ first' = (IF calls = 1 THEN <<[df |-> df, ret |-> value]>> ELSE first)
    /\ pc' = "done"

ReturnTable ==
    /\ pc = "check_table"
    /\ TableWins(results)
    /\ Return(valid_results(results))
    /\ path' = Append(path, "ReturnTable")
    /\ UNCHANGED <<df, header_row_idx, results, table_rows, table_cols,
                   table_appended, result, kv_src, normalized, calls, helper>>

\* lines 43-48: otherwise control reaches the key/value path
FallBack ==
    /\ pc = "check_table"
    /\ ~TableWins(results)
    /\ pc' = "keyvalue"
    /\ path' = Append(path, "FallBack")
    /\ UNCHANGED <<df, header_row_idx, results, table_rows, table_cols,
                   table_appended, result, kv_src, ret, normalized, calls,
                   first, helper>>

\* line 49: extract_keyvalue_format (no statement of its try block can
\* raise on a grid of strings, numbers and NaN, so its except clause is
\* never entered)
KeyValue ==
    /\ pc = "keyvalue"
    /\ \E kv \in {KvScan(df)} :
          /\ result' = (IF KvAccepted(kv.rec) THEN kv.rec ELSE None)
          /\ kv_src' = kv.src
    /\ pc' = "check_kv"
    /\ path' = Append(path, "KeyValue")
    /\ UNCHANGED <<df, header_row_idx, results, table_rows, table_cols,
                   table_appended, ret, normalized, calls, first, helper>>

\* line 50
KvWins(r) == r # None /\ is_valid_result(r)

\* lines 50-51
ReturnKv ==
    /\ pc = "check_kv"
    /\ KvWins(result)
    /\ Return(<<result>>)
    /\ path' = Append(path, "ReturnKv")
    /\ UNCHANGED <<df, header_row_idx, results, table_rows, table_cols,
                   table_appended, result, kv_src, normalized, calls, helper>>

\* line 53
ReturnNone ==
    /\ pc = "check_kv"
    /\ ~KvWins(result)
    /\ Return(None)
    /\ path' = Append(path, "ReturnNone")
    /\ UNCHANGED <<df, header_row_idx, results, table_rows, table_cols,
                   table_appended, result, kv_src, normalized, calls, helper>>

\* lines 326-346 of extract_and_normalize, once extract_fund_data_smart has
\* returned; the C library of the process writes the year of a date
Normalize ==
    /\ pc = "done"
    /\ \E p \in BOOLEAN : normalized' = normalized_list(ret, p)
    /\ pc' = "normalized"
    /\ UNCHANGED <<df, path, header_row_idx, results, table_rows, table_cols,
                   table_appended, result, kv_src, ret, calls, first, helper>>

Next ==
    \/ TableReturns
    \/ TableRaises
    \/ TableExcept
    \/ ReturnTable
    \/ FallBack
    \/ KeyValue
    \/ ReturnKv
    \/ ReturnNone
    \/ Normalize

Spec == Init /\ [][Next]_vars

\* the call is one synchronous computation: a step that can be taken is taken
SpecLive == Spec /\ WF_vars(Next)

---------------------------------------------------------------------------
(* Several calls in one process *)

MaxCalls == 3

\* 基金代码 ... / ABC123 ... / ABC124 ...     (src/test_dongkai_baihui.py)
BatchGrid == <<Encode(HdrStd), Encode(D1), Encode(D2)>>
\* a header with one label twice, a complete row, a row without a code
DupGrid == <<Encode(HdrDup), Encode(D1), Encode(DNoCode)>>
\* a card of label/value rows
CardGrid == <<Encode(KvCode), Encode(KvNav), Encode(KvDate)>>
\* a caption alone
CaptionGrid == <<Encode(Caption)>>

CallGrids == {BatchGrid, DupGrid, CardGrid, CaptionGrid, <<>>}

\* the caller calls extract_and_normalize again, on any grid.  Nothing is
\* reset here: what a call starts from is what its own statements set.
Call ==
    /\ pc = "normalized"
    /\ calls < MaxCalls
    /\ \E g \in CallGrids : df' = g
    /\ calls' = calls + 1
    /\ pc' = "table"
    /\ path' = <<>>
    /\ UNCHANGED <<header_row_idx, results, table_rows, table_cols,
                   table_appended, result, kv_src, ret, normalized, first,
                   helper>>

InitCalls == \E g \in CallGrids : Start(g)

NextCalls == Next \/ Call

SpecCalls == InitCalls /\ [][NextCalls]_vars

---------------------------------------------------------------------------
(* The helpers of the normaliser and of the extractor, called on their own:
   normalize_date (lines 268-291), convert_to_float (lines 294-299) and
   clean_value (lines 243-251) *)

\* how many times a helper is applied: to its argument, then to what it
\* returned
MaxApply == 2

\* the calendar dates written in the four formats
DateYears == {999, 2024}
DateMonths == {1, 2, 11}
DateDays == {3, 29, 30}

Dates ==
    {date \in DateYears \X DateMonths \X DateDays :
        date[3] <= DaysIn(date[1], date[2])}

HYPHEN == 45
SLASH == 47

\* 00:00:00 after a space, the time of a pandas Timestamp of a date
midnight == <<32, 48, 48, 58, 48, 48, 58, 48, 48>>

\* the date written YYYYMMDD (k = 1), YYYY-MM-DD (2), YYYY/MM/DD (3) and
\* YYYY-MM-DD HH:MM:SS (4)
Written(k, date) ==
    CASE k = 1 -> Pad4(date[1]) \o Pad2(date[2]) \o Pad2(date[3])
      [] k = 2 -> Pad4(date[1]) \o <<HYPHEN>> \o Pad2(date[2]) \o <<HYPHEN>>
                    \o Pad2(date[3])
      [] k = 3 -> Pad4(date[1]) \o <<SLASH>> \o Pad2(date[2]) \o <<SLASH>>
                    \o Pad2(date[3])
      [] k = 4 -> Pad4(date[1]) \o <<HYPHEN>> \o Pad2(date[2]) \o <<HYPHEN>>
                    \o Pad2(date[3]) \o midnight

DateTexts == {Written(k, date) : k \in 1..Len(formats), date \in Dates}

\* other texts: no date, a date that does not exist, a date written otherwise
OtherTexts ==
    {<<>>,    \* ''
     <<32, 97, 98, 99, 32>>,    \* ' abc '
     <<97, 98, 99>>,    \* 'abc'
     <<84, 66, 68, 32>>,    \* 'TBD '
     <<50, 48, 50, 52, 45, 48, 50, 45, 51, 48>>,    \* '2024-02-30'
     <<50, 48, 50, 52, 46, 48, 49, 46, 51, 48>>,    \* '2024.01.30'
     <<50, 48, 50, 52, 45, 48, 49, 45, 51, 48, 84, 48, 48, 58, 48, 48, 58, 48, 48>>,    \* '2024-01-30T00:00:00'
     <<32, 50, 48, 50, 52, 48, 49, 51, 48, 32>>,    \* ' 20240130 '
     <<50, 48, 50, 52, 45, 49, 45, 51>>,    \* '2024-1-3'
     <<50, 48, 50, 52, 49, 49, 51>>,    \* '2024113'
     <<50, 48, 50, 52, 49, 51, 48, 49>>,    \* '20241301'
     <<50, 48, 50, 52, 45, 48, 49, 45, 51, 48, 32, 50, 51, 58, 53, 57, 58, 54, 48>>,    \* '2024-01-30 23:59:60'
     <<48, 48, 48, 48, 45, 48, 49, 45, 48, 49>>,    \* '0000-01-01'
     <<110, 97, 110>>}    \* 'nan'

\* texts handed to convert_to_float
NumberTexts ==
    {<<49, 46, 53, 48, 48, 48>>,    \* '1.5000'
     <<49, 46, 49, 54, 49, 51>>,    \* '1.1613'
     <<56, 54, 48, 44, 53, 49, 49, 46, 49, 52>>,    \* '860,511.14'
     <<49, 44, 48, 48, 48>>,    \* '1,000'
     <<49, 44, 53>>,    \* '1,5'
     <<49, 95, 48, 48, 48>>,    \* '1_000'
     <<49, 101, 51>>,    \* '1e3'
     <<32, 49, 46, 53, 32>>,    \* ' 1.5 '
     <<45, 49, 46, 53>>,    \* '-1.5'
     <<43, 46, 53>>,    \* '+.5'
     <<53, 46>>,    \* '5.'
     <<48>>,    \* '0'
     <<46>>,    \* '.'
     <<>>,    \* ''
     <<97, 98, 99>>,    \* 'abc'
     <<78, 47, 65>>,    \* 'N/A'
     <<110, 97, 110>>,    \* 'nan'
     <<105, 110, 102>>,    \* 'inf'
     <<45, 73, 110, 102, 105, 110, 105, 116, 121>>,    \* '-Infinity'
     <<49, 101>>,    \* '1e'
     <<49, 95>>,    \* '1_'
     <<49, 32, 48, 48, 48>>,    \* '1 000'
     <<48, 120, 49, 48>>}    \* '0x10'

\* texts handed to clean_value
CleanTexts ==
    {<<83, 76, 65, 49, 52, 57, 95, 24635, 23618, 38754>>,    \* 'SLA149_总层面'
     <<65, 32, 95, 66>>,    \* 'A _B'
     <<84, 66, 68, 32, 95, 49>>,    \* 'TBD _1'
     <<32, 120, 32>>,    \* ' x '
     <<95, 120>>,    \* '_x'
     <<97, 95, 98, 95, 99>>,    \* 'a_b_c'
     <<32, 97, 95, 98, 32>>,    \* ' a_b '
     <<>>,    \* ''
     <<32, 32>>,    \* '  '
     <<97, 98, 99>>,    \* 'abc'
     <<97, 32, 98>>,    \* 'a b'
     <<120, 95>>,    \* 'x_'
     <<32, 95, 32>>,    \* ' _ '
     <<9, 65, 10>>,    \* '\tA\n'
     <<49, 46, 53, 48, 48, 48>>}    \* '1.5000'

\* the arguments of each helper
Arguments(f) ==
    CASE f = "normalize_date" ->
            {PyNone} \cup {PyStr(t) : t \in DateTexts \cup OtherTexts}
      [] f = "convert_to_float" -> {PyNone} \cup {PyStr(t) : t \in NumberTexts}
      [] f = "clean_value" -> {PyStr(t) : t \in CleanTexts}

Helpers == {"normalize_date", "convert_to_float", "clean_value"}

\* the variables of a call of extract_and_normalize
call ==
    <<df, pc, path, header_row_idx, results, table_rows, table_cols,
      table_appended, result, kv_src, ret, normalized, calls, first>>

\* no grid is being processed
NoCall ==
    /\ df = <<>>
    /\ pc = "helper"
    /\ path = <<>>
    /\ header_row_idx = -1
    /\ results = None
    /\ table_rows = <<>>
    /\ table_cols = <<>>
    /\ table_appended = <<>>
    /\ result = None
    /\ kv_src = None
    /\ ret = None
    /\ normalized = None
    /\ calls = 0
    /\ first = <<>>

InitHelpers ==
    /\ NoCall
    /\ fn \in Helpers
    /\ arg \in Arguments(fn)
    /\ out = <<>>
    /\ pads \in BOOLEAN

\* what the helper is applied to next
Operand == IF out = <<>> THEN arg ELSE out[Len(out)]

NormalizeDate ==
    /\ fn = "normalize_date"
    /\ Len(out) < MaxApply
    /\ out' = Append(out, normalize_date(Operand, pads))
    /\ UNCHANGED <<call, fn, arg, pads>>

ConvertToFloat ==
    /\ fn = "convert_to_float"
    /\ Len(out) < MaxApply
    /\ out' = Append(out, convert_to_float(Operand))
    /\ UNCHANGED <<call, fn, arg, pads>>

CleanValue ==
    /\ fn = "clean_value"
    /\ Len(out) < MaxApply
    /\ out' = Append(out, PyStr(clean_value(Operand.text)))
    /\ UNCHANGED <<call, fn, arg, pads>>

NextHelpers ==
    \/ NormalizeDate
    \/ ConvertToFloat
    \/ CleanValue

SpecHelpers == InitHelpers /\ [][NextHelpers]_vars

---------------------------------------------------------------------------
(* Properties *)

Range(s) == {s[n] : n \in 1..Len(s)}

\* the key/value path has run in the current call
KvDone == "KeyValue" \in Range(path)

\* the index in the Vocabulary of the grid cell (i, j)
At(i, j) == df[i + 1][j + 1]

Rows == 0..(Len(df) - 1)
Cols == 0..(NCols(df) - 1)

NonBlank(t) == Strip(t) # <<>>

\* C1: every record returned by extract_fund_data_smart, from either path,
\* has a non-blank code (产品代码) and a non-blank unit value (单位净值).
C1_ReturnedRecordsHaveCodeAndUnitValue ==
    pc = "done" /\ ret # None =>
        \A n \in 1..Len(ret) :
            /\ "code" \in DOMAIN ret[n] /\ NonBlank(ret[n]["code"])
            /\ "unitValue" \in DOMAIN ret[n] /\ NonBlank(ret[n]["unitValue"])

\* records are returned while the table path also held a candidate with
\* three fields and no code
C1_Witness ==
    /\ pc = "done"
    /\ ret # None
    /\ \E n \in 1..Len(results) :
          "code" \notin DOMAIN results[n] /\ Cardinality(DOMAIN results[n]) >= 3

\* C2: the two paths are never blended.  When the table path yields a
\* record that passes the validator, the output is exactly the validated
\* table records and the key/value path is not run; otherwise the
\* key/value path is run and the output is its one record if that passes
\* the validator, and None if not.
C2_PathsNeverBlend ==
    pc = "done" =>
        IF \E n \in 1..Len(results) : is_valid_result(results[n])
        THEN /\ ret = SelectSeq(results, is_valid_result)
             /\ "KeyValue" \notin Range(path)
        ELSE /\ "KeyValue" \in Range(path)
             /\ \/ is_valid_result(result) /\ ret = <<result>>
                \/ ~is_valid_result(result) /\ ret = None

\* the table path held three candidates, two of them valid, and they are
\* the output
C2_Witness ==
    /\ pc = "done"
    /\ Len(results) = 3
    /\ Len(ret) = 2
    /\ "KeyValue" \notin Range(path)

\* C3: with a header row at index h the table path returns one record for
\* each accepted data row after h (each row appended at line 126), in
\* increasing grid-row order.
C3_OneRecordPerAcceptedRow ==
    pc = "check_table" /\ header_row_idx # -1 =>
        /\ table_rows = table_appended
        /\ Len(results) = Len(table_rows)
        /\ \A n \in 1..Len(table_rows) :
              /\ table_rows[n] > header_row_idx
              /\ n > 1 => table_rows[n - 1] < table_rows[n]

\* the canonical fields with an alias inside some cell of grid row r
FieldsNamedInRow(r) ==
    {f \in Fields : \E j \in 1..Len(df[r + 1]) : f \in fields_in_cell[df[r + 1][j]]}

\* C4: the row chosen as header names at least 2 distinct fields; when no
\* row of the grid names 2 fields no header is chosen, the table path
\* returns None and the key/value path is run.
C4_HeaderNeedsTwoFields ==
    pc # "table" =>
        /\ header_row_idx # -1 =>
              Cardinality(FieldsNamedInRow(header_row_idx)) >= 2
        /\ (\A r \in Rows : Cardinality(FieldsNamedInRow(r)) < 2) =>
              /\ header_row_idx = -1
              /\ results = None
              /\ "TableRaises" \notin Range(path)
              /\ pc = "done" => "KeyValue" \in Range(path)

\* the grid of one caption row (资产净值报告), which names one field, has
\* gone through both paths
C4_Witness ==
    /\ pc = "done"
    /\ df = CaptionGrid
    /\ Cardinality(FieldsNamedInRow(0)) = 1
    /\ header_row_idx = -1
    /\ "KeyValue" \in Range(path)

\* the row r names at least two fields
Qualifies(r) == Cardinality(FieldsNamedInRow(r)) >= 2

\* C5: the header is the lowest qualifying row among rows 0..4, never a row
\* of index 5 or more; when no row of the window qualifies the table path
\* returns None and extract returns what the key/value path found, after
\* validation.
C5_HeaderWithinFirstFiveRows ==
    pc # "table" =>
        /\ header_row_idx \in -1..4
        /\ header_row_idx # -1 =>
              /\ Qualifies(header_row_idx)
              /\ \A r \in 0..(header_row_idx - 1) : ~Qualifies(r)
        /\ header_row_idx = -1 =>
              /\ \A r \in Rows : r <= 4 => ~Qualifies(r)
              /\ results = None
              /\ pc = "done" =>
                    /\ "KeyValue" \in Range(path)
                    /\ ret = (IF is_valid_result(result) THEN <<result>> ELSE None)

\* row 5 qualifies, no header is chosen, and the record comes from the
\* key/value path
C5_Witness ==
    /\ pc = "done"
    /\ Len(df) > 5
    /\ Qualifies(5)
    /\ header_row_idx = -1
    /\ ret # None

\* C6: a call on the grid of the process's first call returns what the
\* first call returned, whatever grids were processed in between.
C6_SameGridSameResult ==
    pc = "done" /\ first # <<>> /\ df = first[1].df => ret = first[1].ret

\* the third call is on the grid of the first call and returns records
C6_Witness ==
    /\ pc = "done"
    /\ calls = 3
    /\ first # <<>>
    /\ df = first[1].df
    /\ ret # None

\* no exception is in flight outside extract_table_format, what is returned
\* is a list of records or None, and once line 118 has raised and the
\* exception is caught the table path has found nothing and the call goes
\* on to the key/value path
ErrorsContained ==
    /\ pc \in {"table", "table_raised", "check_table", "keyvalue", "check_kv",
               "done", "normalized"}
    /\ pc = "done" =>
          \/ ret = None
          \/ \A n \in 1..Len(ret) : DOMAIN ret[n] \subseteq Fields
    /\ "TableRaises" \in Range(path) /\ pc # "table_raised" =>
          /\ results = None
          /\ pc = "done" => "KeyValue" \in Range(path)

\* C7: extract_fund_data_smart is total: every call returns, a list of
\* records or None, and never raises; an exception inside the table path is
\* caught there, the table path then counts as having found nothing and
\* the key/value path is still run.
C7_TotalAndErrorsContained == []ErrorsContained /\ <>(pc = "done")

\* line 118 raised after a row had been appended, and the call has returned
\* through the key/value path
C7_Witness ==
    /\ pc = "done"
    /\ "TableRaises" \in Range(path)
    /\ "KeyValue" \in Range(path)
    /\ table_appended # <<>>

\* some other field has an alias inside the cleaned text t that is longer
\* than n characters
LongerForeignAlias(f, t, n) ==
    \E o \in Fields \ {f} : \E k \in 1..Len(keywords[o]) :
        In(Cleaned(keywords[o][k]), Cleaned(t))
            /\ Len(Cleaned(keywords[o][k])) > n

\* per cell and field: the aliases of the field that match the cell, and
\* those to which another field has a longer alias in the cell
matching ==
    [c \in Cells |-> [f \in Fields |->
        {k \in 1..Len(keywords[f]) : is_match(keywords[f][k], CellValue(Vocabulary[c]))}]]
beaten ==
    [c \in Cells |-> [f \in Fields |->
        {k \in 1..Len(keywords[f]) :
            LongerForeignAlias(f, CellValue(Vocabulary[c]),
                               Len(Cleaned(keywords[f][k])))}]]

\* the cell 累计单位净值：1.23
AccCell == CHOOSE c \in Cells : Vocabulary[c] = KvAcc[1]
\* the cell 净值日期：20250121
DateCell == CHOOSE c \in Cells : Vocabulary[c] = KvDate[1]

SameOk(i, j) == same_cell_ok[At(i, j)]
\* the cell n columns to the right of (i, j) exists and is usable
RightUsable(i, j, n) == j + n < NCols(df) /\ right_cell_ok[At(i, j + n)]

\* the text T05851
T05851 == <<84, 48, 53, 56, 53, 49>>

\* C9: a field's value comes from the first usable candidate in the order:
\* text after the first full-width colon of the label cell, cell (i, j+1),
\* cell (i, j+2).  The cell 产品代码：T05851 and the row 产品代码 | T05851
\* both give the code T05851.
C9_ValueLayoutOrder ==
    KvDone =>
        \A f \in DOMAIN kv_src :
            /\ \/ /\ kv_src[f].layout = "same"
                  /\ SameOk(kv_src[f].i, kv_src[f].j)
                  /\ kv_src[f].raw = same_cell_value[At(kv_src[f].i, kv_src[f].j)]
               \/ /\ kv_src[f].layout = "right" /\ kv_src[f].offset = 1
                  /\ ~SameOk(kv_src[f].i, kv_src[f].j)
                  /\ RightUsable(kv_src[f].i, kv_src[f].j, 1)
                  /\ kv_src[f].raw = cell_value[At(kv_src[f].i, kv_src[f].j + 1)]
               \/ /\ kv_src[f].layout = "right" /\ kv_src[f].offset = 2
                  /\ ~SameOk(kv_src[f].i, kv_src[f].j)
                  /\ ~RightUsable(kv_src[f].i, kv_src[f].j, 1)
                  /\ RightUsable(kv_src[f].i, kv_src[f].j, 2)
                  /\ kv_src[f].raw = cell_value[At(kv_src[f].i, kv_src[f].j + 2)]
            /\ Vocabulary[At(kv_src[f].i, kv_src[f].j)] \in {KvColon[1], KvCode[1]} =>
                  f = "code" /\ kv_src[f].value = T05851

\* one field took the text after the colon although the cell to the right
\* was usable, another took the cell two to the right because the cell
\* between was not
C9_Witness ==
    /\ KvDone
    /\ \E f \in DOMAIN kv_src :
          /\ kv_src[f].layout = "same"
          /\ RightUsable(kv_src[f].i, kv_src[f].j, 1)
    /\ \E f \in DOMAIN kv_src :
          kv_src[f].layout = "right" /\ kv_src[f].offset = 2

\* the field accepts the cell (i, j) as its label
Accepts(f, i, j) == label_pattern[At(i, j)][f] # 0
\* the label cell has no usable value in itself nor to its right
NoValueBeside(i, j) ==
    ~SameOk(i, j) /\ ~RightUsable(i, j, 1) /\ ~RightUsable(i, j, 2)
\* the cell below (i, j) exists and is usable
BelowUsable(i, j) == i + 1 < Len(df) /\ right_cell_ok[At(i + 1, j)]
\* the cell (i, j) comes before (i2, j2) in row-major order
Before(i, j, i2, j2) == i < i2 \/ (i = i2 /\ j < j2)

---------------------------------------------------------------------------
(* Properties of the normaliser and of the helpers *)

\* the cell 客户名称
ClientCell == CHOOSE c \in Cells : Vocabulary[c] = HdrAnc[2]

\* the entries of results that pass the validator, in order
Kept == {k \in 1..Len(results) : is_valid_result(results[k])}

\* the grid row of the n-th record returned by the table path
KeptRow(n) ==
    table_rows[CHOOSE k \in Kept : Cardinality({x \in Kept : x <= k}) = n]

\* extract_and_normalize has returned records of the table path, of the
\* key/value path
TableNormalized ==
    pc = "normalized" /\ normalized # None /\ "ReturnTable" \in Range(path)

KvNormalized ==
    pc = "normalized" /\ normalized # None /\ "ReturnKv" \in Range(path)

\* C11: the ancillary fields are carried like the core fields: when the
\* header has a column 客户名称 and an accepted row holds a value in it, or
\* when a card has the label 客户名称 with a usable value to its right, the
\* record extract_and_normalize emits carries that value as its client
\* name.
C11_AncillaryFieldsCarried ==
    /\ TableNormalized =>
          \A n \in 1..Len(normalized) : \A j \in Cols :
              At(header_row_idx, j) = ClientCell /\ has_value[At(KeptRow(n), j)]
                  => normalized[n].clientName
                        = PyStr(table_value[At(KeptRow(n), j)])
    /\ KvNormalized =>
          \A i \in Rows : \A j \in Cols :
              At(i, j) = ClientCell /\ RightUsable(i, j, 1)
                  => normalized[1].clientName = PyStr(cell_value[At(i, j + 1)])

\* C12: normalize_date gives, for a valid calendar date written YYYYMMDD,
\* YYYY-MM-DD, YYYY/MM/DD or YYYY-MM-DD HH:MM:SS, the eight digits YYYYMMDD
\* of that date, and gives its own output back unchanged.
C12_DateFormsAgreeAndIdempotent ==
    fn = "normalize_date" /\ out # <<>> =>
        \A date \in Dates : \A k \in 1..Len(formats) :
            arg = PyStr(Written(k, date)) =>
                /\ out[1] = PyStr(Written(1, date))
                /\ \A n \in 2..Len(out) : out[n] = out[1]

\* the text, with or without the white space around it, is a date in none
\* of the four formats
NoDate(t) == \A n \in 1..Len(formats) : ~strptime(Strip(t), formats[n]).ok

\* C13: for a string that is a date in none of the four formats (strings
\* with white space around them and the empty string included),
\* normalize_date returns the string it was given, unchanged.
C13_NoDateReturnedUnchanged ==
    fn = "normalize_date" /\ out # <<>> /\ arg.kind = "str" /\ NoDate(arg.text)
        => out[1] = arg

\* per value: it is a date in none of the formats; float() rejects it
no_date == [v \in Values |-> NoDate(v)]
no_number == [v \in Values |-> ~FloatOk(v)]

\* C14: a date that cannot be parsed or a unit value that is no number
\* drops no record: extract_and_normalize emits one record per record of
\* extract_fund_data_smart, in the same order, and the field whose
\* conversion failed keeps the text it had.
C14_FailedConversionKeepsText ==
    pc = "normalized" /\ ret # None =>
        /\ normalized # None
        /\ Len(normalized) = Len(ret)
        /\ \A n \in 1..Len(ret) :
              /\ normalized[n].code = PyStr(ret[n]["code"])
              /\ no_number[ret[n]["unitValue"]]
                    => normalized[n].unitValue = PyStr(ret[n]["unitValue"])
              /\ "valuationDate" \in DOMAIN ret[n]
                        /\ no_date[ret[n]["valuationDate"]]
                    => normalized[n].valuationDate
                          = PyStr(ret[n]["valuationDate"])

\* digits in groups of three between commas: 1,000 or 860,511
GroupedDigits(m) ==
    /\ Len(m) >= 5
    /\ Len(m) % 4 # 0
    /\ \A p \in 1..Len(m) :
          IF (Len(m) - p) % 4 = 3 THEN m[p] = 44 ELSE IsDigit(m[p])

\* a number written with comma thousands separators, as 860,511.14
Grouped(t) ==
    /\ GroupedDigits(IntPart(t))
    /\ AllDigits(FracPart(t))
    /\ In(<<DOT>>, t) => FracPart(t) # <<>>

\* C15: convert_to_float accepts thousands separators: a number written
\* with commas between its groups of three digits is returned as that
\* number, not as a string.
C15_ThousandsSeparatorsAccepted ==
    fn = "convert_to_float" /\ out # <<>> /\ arg.kind = "str" /\ Grouped(arg.text)
        => out[1] = DecimalValue(1, Remove(arg.text, 44))

\* the text up to its first underscore, or all of it
UpToUnderscore(t) ==
    IF \E i \in 1..Len(t) : t[i] = UNDERSCORE
    THEN SubSeq(t, 1, (CHOOSE i \in 1..Len(t) :
                          t[i] = UNDERSCORE
                              /\ \A k \in 1..(i - 1) : t[k] # UNDERSCORE) - 1)
    ELSE t

\* C16: clean_value returns its argument trimmed and cut at the first
\* underscore of the trimmed text; the result holds no underscore and has
\* no white space at either end.
C16_CleanValueTrimmedAndCut ==
    fn = "clean_value" /\ out # <<>> =>
        /\ out[1] = PyStr(UpToUnderscore(Strip(arg.text)))
        /\ \A i \in 1..Len(out[1].text) : out[1].text[i] # UNDERSCORE
        /\ out[1].text = Strip(out[1].text)

\* the length of the longest alias of the field inside the column label
LongestHit(c, f) ==
    CHOOSE n \in {Len(Cleaned(keywords[f][k])) : k \in header_hits[c][f]} :
        \A k \in header_hits[c][f] : Len(Cleaned(keywords[f][k])) <= n

\* per header cell and field with an alias in it: another field has a
\* strictly longer alias inside the label
outdone ==
    [c \in Cells |-> [f \in Fields |->
        /\ header_hits[c][f] # {}
        /\ LongerForeignAlias(f, header_label[c], LongestHit(c, f))]]

\* C17: in the table path a field reads its value from a column only if no
\* other field has a strictly longer alias inside the column's label (with
\* the header 累计单位净值 | 单位净值 the unit value is never read from the
\* column 累计单位净值), and no two fields of a record are read from the same
\* column.
C17_TableMostSpecificWins ==
    \A n \in 1..Len(table_cols) :
        /\ \A f \in DOMAIN table_cols[n] :
              ~outdone[At(header_row_idx, table_cols[n][f])][f]
        /\ \A f, g \in DOMAIN table_cols[n] :
              table_cols[n][f] = table_cols[n][g] => f = g

\* the place of every alias of the field when the field's list is reversed
Reversed == [f \in Fields |-> [k \in 1..Len(keywords[f]) |-> Len(keywords[f]) + 1 - k]]

\* lines 111-123 run with the aliases of every field in the order `place`:
\* the lookup of one field in the data row r, and the dict of the row
LookupUnder(place, g, h, r, f) ==
    The({LookupFrom(g, r, hdrs,
                    Stops(g, r, hdrs,
                          {<<place[f][p[1]], p[2]>> : p \in Hits(g, h, f)})) :
            hdrs \in {cleaned_headers(g, h)}})

RowUnder(place, g, h, r) ==
    RowOf([f \in Fields |-> LookupUnder(place, g, h, r, f)])

\* C18: the order of the aliases inside a field's list carries no priority:
\* with every list reversed, each row of the grid that gave a returned
\* record gives the same record.
C18_AliasOrderIrrelevant ==
    pc = "done" /\ "ReturnTable" \in Range(path) =>
        \A n \in 1..Len(ret) :
            /\ ~RowUnder(Reversed, df, header_row_idx, KeptRow(n)).raise
            /\ RowUnder(Reversed, df, header_row_idx, KeptRow(n)).rec = ret[n]

\* the cell 虚拟净值
VirtualCell == CHOOSE c \in Cells : Vocabulary[c] = KvOther[3]

\* the alias p stands in the text cv at the offset n, and nowhere before
FirstAt(p, cv, n) ==
    /\ n + Len(p) <= Len(cv)
    /\ SubSeq(cv, n + 1, n + Len(p)) = p
    /\ \A m \in 0..(n - 1) : SubSeq(cv, m + 1, m + Len(p)) # p

\* rule (a): the cell text without spaces and line breaks is the alias
RuleA(p, cv) == Cleaned(cv) = Cleaned(p)

\* rule (b): the alias occurs in the cell text, and the character before
\* the occurrence, if any, is neither alphabetic nor a CJK ideograph
RuleB(p, cv) ==
    \E n \in 0..Len(cv) :
        /\ FirstAt(p, cv, n)
        /\ n > 0 => ~IsAlpha(cv[n]) /\ cv[n] \notin CJK_FIRST..CJK_LAST

\* the aliases of every field for which a cell is a candidate match
candidate ==
    [c \in Cells |-> [f \in Fields |->
        {k \in 1..Len(keywords[f]) :
            \/ RuleA(keywords[f][k], cell_value[c])
            \/ RuleB(keywords[f][k], cell_value[c])}]]

\* C19: the key/value scanner binds a field to a cell only through an alias
\* for which the cell is a candidate by rule (a) or rule (b); the cell
\* 客户名称 is never the label of the name, nor 虚拟净值 the label of the
\* unit value.
C19_CandidateRule ==
    KvDone =>
        /\ \A f \in DOMAIN kv_src :
              kv_src[f].alias \in candidate[At(kv_src[f].i, kv_src[f].j)][f]
        /\ "name" \in DOMAIN kv_src =>
              At(kv_src["name"].i, kv_src["name"].j) # ClientCell
        /\ "unitValue" \in DOMAIN kv_src =>
              At(kv_src["unitValue"].i, kv_src["unitValue"].j) # VirtualCell

\* a card with the row 客户名称 | C01 | 虚拟净值 | 1.2000 above the row that
\* gives the unit value, and a field bound by rule (b) alone
C19_Witness ==
    /\ KvDone
    /\ "unitValue" \in DOMAIN kv_src
    /\ \E r \in 1..kv_src["unitValue"].i :
          df[r][1] = ClientCell /\ df[r][3] = VirtualCell
    /\ \E f \in DOMAIN kv_src :
          ~RuleA(keywords[f][kv_src[f].alias],
                 cell_value[At(kv_src[f].i, kv_src[f].j)])

\* the fields that accept a cell as their label, and the fields that accept
\* the same cell with its spaces and line breaks taken out
accepting ==
    [c \in Cells |-> {f \in Fields : label_pattern[c][f] # 0}]

accepting_cleaned ==
    [c \in Cells |-> {f \in Fields : LabelPattern(f, Cleaned(cell_value[c])) # 0}]

\* C20: spaces and line breaks inside a label cell never change which field
\* accepts the cell: every cell of a grid the key/value scanner has scanned
\* is accepted by the fields that accept it without its spaces and line
\* breaks.
C20_SpacesNeverChangeAcceptance ==
    KvDone =>
        \A i \in 0..(Len(df) - 1) : \A j \in 0..(Len(df[i + 1]) - 1) :
            accepting[At(i, j)] = accepting_cleaned[At(i, j)]

\* the value contains a catalog alias or a header keyword, or is contained
\* in one
NamesKeyword(value) ==
    \E kw \in all_keywords \cup Range(header_patterns) :
        In(kw, value) \/ In(value, kw)

\* the cell from which the key/value scanner took the value of the field
ValueCell(f) == At(kv_src[f].i, kv_src[f].j + kv_src[f].offset)

\* C21: the key/value scanner assigns a value to a field only if the value
\* is not blank (not an absent cell, not empty after trimming, not NaN) and
\* is not recognized as a header keyword; a value read from a cell to the
\* right of the label is never itself a label cell.
C21_ValueNeverBlankNorLabel ==
    KvDone =>
        \A f \in DOMAIN kv_src :
            /\ Strip(kv_src[f].raw) # <<>>
            /\ kv_src[f].raw # nan
            /\ ~NamesKeyword(kv_src[f].raw)
            /\ kv_src[f].layout = "right" =>
                  /\ ~pd_isna(Vocabulary[ValueCell(f)])
                  /\ kv_src[f].raw # NaN_text
                  /\ accepting[ValueCell(f)] = {}

\* the cells of the grid that the field accepts as label and that have a
\* usable value, in themselves or to their right
ValuedLabels(f) ==
    {c \in Rows \X Cols :
        /\ Accepts(f, c[1], c[2])
        /\ ~NoValueBeside(c[1], c[2])}

\* C22: in the key/value scanner every field takes its value from the first
\* cell in row-major order that the field accepts as label and that has a
\* usable value, if there is one; a label cell without a usable value does
\* not end the search, a later cell never replaces the first; the scanner
\* returns a record only when at least 3 fields were filled this way.
C22_FirstValuedLabelWins ==
    KvDone =>
        /\ DOMAIN kv_src = {f \in Fields : ValuedLabels(f) # {}}
        /\ \A f \in DOMAIN kv_src :
              /\ <<kv_src[f].i, kv_src[f].j>> \in ValuedLabels(f)
              /\ \A c \in ValuedLabels(f) :
                    ~Before(c[1], c[2], kv_src[f].i, kv_src[f].j)
        /\ result # None <=> Cardinality(DOMAIN kv_src) >= 3
        /\ result # None => result = [f \in DOMAIN kv_src |-> kv_src[f].value]

\* a card that gives a record, in which a field met a label without a usable
\* value before the cell it took, and a usable label after it
C22_Witness ==
    /\ KvDone
    /\ result # None
    /\ \E f \in DOMAIN kv_src :
          /\ \E c \in Rows \X Cols :
                /\ Accepts(f, c[1], c[2])
                /\ NoValueBeside(c[1], c[2])
                /\ Before(c[1], c[2], kv_src[f].i, kv_src[f].j)
          /\ \E c \in ValuedLabels(f) :
                Before(kv_src[f].i, kv_src[f].j, c[1], c[2])

\* the grid rows after the header row, and what lines 108-123 make of the
\* row r read on its own
DataRows == (header_row_idx + 1)..(Len(df) - 1)

Alone(r) == RowResult(df, header_row_idx, r)

\* the row is blank, or fills fewer than 3 fields
Skipped(r) == AllBlank(df[r + 1])

Short(r) == ~Skipped(r) /\ Cardinality(DOMAIN Alone(r).rec) < 3

\* the row is read without an exception and fills at least 3 fields
Full(r) ==
    /\ ~Skipped(r)
    /\ ~Alone(r).raise
    /\ Cardinality(DOMAIN Alone(r).rec) >= 3

\* C23: in the table path a row after the header becomes a record only if it
\* has non-blank values for at least 3 fields; blank rows and rows with
\* fewer than 3 fields give no record and neither stop nor change the
\* extraction of the other rows: in a grid whose rows after the header are
\* all of these three kinds, the records are those of the rows with at
\* least 3 fields, each as read on its own.
C23_ShortRowsDoNotDisturb ==
    pc = "check_table" /\ header_row_idx # -1 =>
        /\ \A n \in 1..Len(table_rows) :
              /\ table_rows[n] \in DataRows
              /\ Cardinality(DOMAIN results[n]) >= 3
              /\ \A f \in DOMAIN results[n] :
                    has_value[At(table_rows[n], table_cols[n][f])]
        /\ (\A r \in DataRows : Skipped(r) \/ Short(r) \/ Full(r)) =>
              /\ Range(table_rows) = {r \in DataRows : Full(r)}
              /\ \A n \in 1..Len(table_rows) :
                    results[n] = Alone(table_rows[n]).rec

\* C24: the table path binds every field to one column for the whole grid:
\* any two records returned from the same grid read a field they both hold
\* from the same column, and a record whose row is blank in the column that
\* another record read a field from does not hold that field.
C24_OneColumnPerField ==
    pc = "done" /\ "ReturnTable" \in Range(path) =>
        \A n, m \in Kept :
            \A f \in DOMAIN table_cols[n] :
                IF f \in DOMAIN table_cols[m]
                THEN table_cols[m][f] = table_cols[n][f]
                ELSE has_value[At(table_rows[m], table_cols[n][f])]

\* the cell with the line breaks and the spaces of its text taken out
Unbroken(c) == S(Cleaned(Str(c)))

\* what header detection and column binding make of every cell once its
\* line breaks and spaces are taken out
named_unbroken == [c \in Cells |-> FieldsInCell(Unbroken(Vocabulary[c]))]

hits_unbroken ==
    [c \in Cells |->
        [f \in Fields |-> HeaderHits(HeaderLabel(Unbroken(Vocabulary[c])), f)]]

\* the header with line breaks over one complete data row
LineBroken == <<Encode(HdrBroken), Encode(D1)>>

\* the record of the data row ABC123 | F1 | 20250121 | 1.5000 | 1.5000
D1Record ==
    [f \in Fields |->
        CASE f = "code" -> Str(D1[1])
          [] f = "name" -> Str(D1[2])
          [] f = "valuationDate" -> Str(D1[3])
          [] f = "unitValue" -> Str(D1[4])
          [] f = "accumulatedUnitValue" -> Str(D1[5])]

\* C25: line breaks and spaces inside header cells change neither header
\* detection nor column binding: every cell of a candidate header row names
\* the fields it names without them, every label of the header row found
\* binds the aliases it binds without them, and the header
\* 协会备案编码\n（Fund Filling Code） | Fund Name | 日期\n（NAV As Of Date） |
\* 单位净值\n（NAV/Share） | 累计单位\n净值 over one complete data row gives a
\* record with all five fields.
C25_LineBreaksIgnored ==
    /\ pc = "check_table" =>
          /\ \A r \in ScanWindow(df) : \A j \in Cols :
                fields_in_cell[At(r, j)] = named_unbroken[At(r, j)]
          /\ header_row_idx # -1 =>
                \A j \in Cols :
                    header_hits[At(header_row_idx, j)] =
                        hits_unbroken[At(header_row_idx, j)]
    /\ pc = "done" /\ df = LineBroken => ret = <<D1Record>>

C25_Witness ==
    /\ pc = "done"
    /\ df = LineBroken
    /\ path = <<"TableReturns", "ReturnTable">>
    /\ DOMAIN ret[1] = Fields

\* a one-cell title row, the header row, one data row
Titled == <<Encode(Caption), Encode(HdrStd), Encode(D1)>>

\* C26: the rows above the header row and the header row itself give no
\* record: with the header row at index h, 0 <= h <= 4, every row the table
\* path appends a record for has an index greater than h, and every record
\* returned is the dict of such a row; the grid made of a one-cell title
\* row, the header row and one data row gives the code, name, date and
\* unit value of the data row.
C26_TitleRowsSkipped ==
    /\ pc \in {"check_table", "table_raised"} /\ header_row_idx # -1 =>
          /\ header_row_idx \in 0..4
          /\ \A n \in 1..Len(table_appended) :
                table_appended[n] > header_row_idx
    /\ pc = "done" /\ "ReturnTable" \in Range(path) =>
          /\ Len(ret) <= Len(df) - 1 - header_row_idx
          /\ \A n \in 1..Len(ret) :
                /\ KeptRow(n) > header_row_idx
                /\ ret[n] = Alone(KeptRow(n)).rec
    /\ pc = "done" /\ df = Titled =>
          /\ Len(ret) = 1
          /\ \A f \in {"code", "name", "valuationDate", "unitValue"} :
                f \in DOMAIN ret[1] /\ ret[1][f] = D1Record[f]

\* four title rows, the header row at index 4, and records returned
C26_Witness ==
    /\ pc = "done"
    /\ "ReturnTable" \in Range(path)
    /\ header_row_idx = 4
    /\ Len(ret) = 2

\* the cells of grid row r that are not blank
NonBlankCells(r) == {j \in Cols : ~blank_cell[At(r, j)]}

\* C27: a row with exactly one non-blank cell is never taken as the header
\* row, whatever the text of that cell.
C27_CaptionNeverHeader ==
    pc \in {"check_table", "table_raised"} /\ header_row_idx # -1 =>
        Cardinality(NonBlankCells(header_row_idx)) # 1

\* C28: in the key/value scanner no two fields take their values through
\* the same label cell.
C28_OneFieldPerLabelCell ==
    KvDone =>
        \A f, g \in DOMAIN kv_src :
            kv_src[f].i = kv_src[g].i /\ kv_src[f].j = kv_src[g].j => f = g

\* C29: every field of a returned record, from either path, holds a
\* non-empty text: a cell that clean_value reduces to the empty text (such
\* as _总层面) fills no field and does not count towards the 3 fields a
\* record needs.
C29_FieldsHoldText ==
    pc = "done" /\ ret # None =>
        \A n \in 1..Len(ret) : \A f \in DOMAIN ret[n] : ret[n][f] # <<>>

\* the aliases of the catalog and the header keywords of lines 222-230,
\* without spaces and line breaks
KeywordTexts ==
    {Cleaned(kw) : kw \in all_keywords \cup Range(header_patterns)}

\* C30: no field of a returned record, from either path, holds a text that
\* is itself an alias of the catalog or a header keyword.
C30_NoKeywordAsValue ==
    pc = "done" /\ ret # None =>
        \A n \in 1..Len(ret) : \A f \in DOMAIN ret[n] :
            Cleaned(ret[n][f]) \notin KeywordTexts


=============================================================================
